---- MODULE Spec2Model ----
(***************************************************************************)
(* The role store and RBAC base policy of sqlalchemy_oso/roles.py.         *)
(*                                                                         *)
(* The role store is the table of role rows of one SQLAlchemy session;     *)
(* role.users is the relationship's Python list (append adds at the end,   *)
(* remove deletes the first occurrence and raises ValueError when there is *)
(* none).  The Polar rules of enable_roles are operators over the store    *)
(* and the policy the application loads: the [resource]_role_order facts,  *)
(* the resource_role_applies_to rules and the role_allow permission rules. *)
(* The store is what the session's queries see (they flush first); commit  *)
(* and rollback belong to the caller's session and are not modelled.       *)
(***************************************************************************)
EXTENDS Integers, Sequences, FiniteSets, TLC

VARIABLES
    store,              \* the role rows, in id order: [resource, name, users]
    pc,                 \* the position of a reassign_user_role call in progress
    last,               \* what the last call returned: a read's result, or
                        \* whether a mutating call raised
    role_order,         \* resource type -> the list of its [type]_role_order fact
    applies_to_rules,   \* the child types with a resource_role_applies_to rule
    role_allow_rules,   \* the application's role_allow permission rules
    goal_path,          \* the nested role_allow goals of a query being evaluated
    verdict             \* the outcome of that query

vars == <<store, pc, last, role_order, applies_to_rules, role_allow_rules,
          goal_path, verdict>>

\* ------------------------------------------------------------------ bounds
MaxRows == 2        \* role rows in the store
MaxEntries == 2     \* entries of all the users lists together
MaxOrderLen == 3    \* names in a role order drawn for the hierarchy runs
MaxDepth == 4       \* nested role_allow goals followed in a hierarchy run

\* ------------------------------------------------------------ the entities
Users == {"larry", "moe"}
RoleNames == {"ADMIN", "WRITE", "READ"}
PolicyActions == {"view"}
None == "None"

Resources == {"acme", "web", "api", "bug"}

TypeOf(resource) ==
    CASE resource = "acme" -> "Organization"
      [] resource \in {"web", "api"} -> "Repository"
      [] resource = "bug" -> "Issue"

\* repo.organization and issue.repository, the fields the documented
\* resource_role_applies_to rules bind the parent to.
ParentOf(resource) ==
    CASE resource \in {"web", "api"} -> "acme"
      [] resource = "bug" -> "web"
      [] OTHER -> None

\* The resource models registered with resource_role_class (ROLE_CLASSES).
RoleResourceTypes == {"Organization", "Repository"}
RoleResources == {r \in Resources : TypeOf(r) \in RoleResourceTypes}

\* ------------------------------------------------------- Python list users
Contains(users, user) == \E i \in 1..Len(users) : users[i] = user

FirstIndex(users, user) ==
    CHOOSE i \in 1..Len(users) :
        users[i] = user /\ \A j \in 1..(i - 1) : users[j] # user

\* list.remove(user): drops the first occurrence only.
RemoveFirst(users, user) ==
    LET i == FirstIndex(users, user)
    IN SubSeq(users, 1, i - 1) \o SubSeq(users, i + 1, Len(users))

RowIds(st) == 1..Len(st)

RECURSIVE IdsInOrder(_, _)
\* The ids of a set of rows as the query returns them, in id order.
IdsInOrder(ids, n) ==
    IF n = 0 THEN <<>>
    ELSE IF n \in ids THEN Append(IdsInOrder(ids, n - 1), n)
         ELSE IdsInOrder(ids, n - 1)

\* -------------------------------------------------------- the role store
\* session.query(role_model) joined to the resource, filtered on
\* resource.id and role.name.
RolesNamed(st, resource, role_name) ==
    {i \in RowIds(st) : st[i].resource = resource /\ st[i].name = role_name}

\* ... filtered on resource.id and role_model.users.any(user.id == id).
RolesOfUserOn(st, user, resource) ==
    {i \in RowIds(st) : st[i].resource = resource /\ Contains(st[i].users, user)}

\* .first(): the matching row with the lowest id.
First(ids) == CHOOSE i \in ids : \A j \in ids : i <= j

\* add_user_role without the lookup of the existing row.
add_user_role_always_new(st, user, resource, role_name) ==
    Append(st, [resource |-> resource, name |-> role_name, users |-> <<user>>])

add_user_role(st, user, resource, role_name) ==
    LET found == RolesNamed(st, resource, role_name)
    IN IF found # {}
       THEN [st EXCEPT ![First(found)].users = Append(@, user)]
       ELSE Append(st, [resource |-> resource, name |-> role_name,
                        users |-> <<user>>])

RECURSIVE remove_user(_, _, _)
\* for role in roles: role.users.remove(user), ValueError re-raised.
\* Rows changed before the raise stay changed.
remove_user(st, ids, user) ==
    IF ids = <<>> THEN [store |-> st, raised |-> FALSE]
    ELSE LET i == Head(ids)
         IN IF Contains(st[i].users, user)
            THEN remove_user([st EXCEPT ![i].users = RemoveFirst(@, user)],
                             Tail(ids), user)
            ELSE [store |-> st, raised |-> TRUE]

\* delete_user_role with the name filter applied even when no name is given.
delete_user_role_named_only(st, user, resource, role_name) ==
    remove_user(st, IdsInOrder(RolesNamed(st, resource, role_name), Len(st)), user)

delete_user_role(st, user, resource, role_name) ==
    LET roles == IF role_name # None
                 THEN RolesNamed(st, resource, role_name)
                 ELSE RolesOfUserOn(st, user, resource)
    IN remove_user(st, IdsInOrder(roles, Len(st)), user)

\* The rows of the role model of type(resource) that have the user; the
\* query has no filter on the resource.
get_user_roles_for_resource(st, user, resource) ==
    {i \in RowIds(st) : TypeOf(st[i].resource) = TypeOf(resource)
                        /\ Contains(st[i].users, user)}

\* --------------------------------------------------- the RBAC base policy
RoleOf(row) == [name |-> row.name, resource |-> row.resource]

\* user_in_role without the comparison of the role's resource id.
user_in_role_any_resource(user, resource) ==
    IF TypeOf(resource) \notin RoleResourceTypes THEN {}
    ELSE {i \in RowIds(store) :
            /\ TypeOf(store[i].resource) = TypeOf(resource)
            /\ Contains(store[i].users, user)}

\* user_in_role(user: User, role, resource: Resource), one rule per
\* registered role class: the rows with the user whose resource id is
\* resource.id.
user_in_role(user, resource) ==
    IF TypeOf(resource) \notin RoleResourceTypes THEN {}
    ELSE {i \in RowIds(store) :
            /\ TypeOf(store[i].resource) = TypeOf(resource)
            /\ Contains(store[i].users, user)
            /\ store[i].resource = resource}

RECURSIVE resource_role_applies_to_recursive(_)
\* resource_role_applies_to following the parent's own rule as well.
resource_role_applies_to_recursive(resource) ==
    {resource} \cup
    (IF TypeOf(resource) \in applies_to_rules /\ ParentOf(resource) # None
     THEN resource_role_applies_to_recursive(ParentOf(resource)) ELSE {})

\* resource_role_applies_to(resource, role_resource): the reflexive base
\* rule and the application's rule for the resource's type, which binds
\* the parent field.
resource_role_applies_to(resource) ==
    {resource} \cup
    (IF TypeOf(resource) \in applies_to_rules /\ ParentOf(resource) # None
     THEN {ParentOf(resource)} ELSE {})

RECURSIVE inherits_role_helper_next(_, _)
\* inherits_role_helper binding only the name next to the role's.
inherits_role_helper_next(role_name, order) ==
    IF order = <<>> THEN {}
    ELSE LET first == Head(order)
             rest == Tail(order)
         IN (IF role_name = first /\ rest # <<>> THEN {Head(rest)} ELSE {})
            \cup inherits_role_helper_next(role_name, rest)

RECURSIVE inherits_role_helper(_, _)
\* The names inherited_role can be bound to for a role name and an order.
inherits_role_helper(role_name, order) ==
    IF order = <<>> THEN {}
    ELSE LET first == Head(order)
             rest == Tail(order)
         IN (IF role_name = first THEN {rest[i] : i \in 1..Len(rest)} ELSE {})
            \cup inherits_role_helper(role_name, rest)

\* inherits_role(role: Role, inherited_role): new roles of the same class
\* on role's resource, named by the order of the role's resource type.
inherits_role(role) ==
    IF TypeOf(role.resource) \notin RoleResourceTypes THEN {}
    ELSE {[name |-> n, resource |-> role.resource] :
            n \in inherits_role_helper(role.name, role_order[TypeOf(role.resource)])}

\* A permission rule role_allow(role: TRole{name: N}, A, resource: T).
Permits(role, action, resource) ==
    \E rule \in role_allow_rules :
        /\ rule.role_type = TypeOf(role.resource)
        /\ rule.name = role.name
        /\ rule.action = action
        /\ rule.resource_type = TypeOf(resource)

RECURSIVE role_allow(_, _, _)
\* The answer of role_allow when the expansion ends, as it does for an
\* order of distinct names; the hierarchy runs below follow it goal by goal.
role_allow(role, action, resource) ==
    \/ Permits(role, action, resource)
    \/ \E inherited \in inherits_role(role) :
          role_allow(inherited, action, resource)

\* rbac_allow asking role_allow about the role's resource.
rbac_allow_role_resource(user, action, resource) ==
    \E role_resource \in resource_role_applies_to(resource) :
        \E i \in user_in_role(user, role_resource) :
            role_allow(RoleOf(store[i]), action, role_resource)

rbac_allow(user, action, resource) ==
    \E role_resource \in resource_role_applies_to(resource) :
        \E i \in user_in_role(user, role_resource) :
            role_allow(RoleOf(store[i]), action, resource)

allow(user, action, resource) == rbac_allow(user, action, resource)

\* The roles user_in_role binds while allow is evaluated, with the
\* role_resource each was asked for.
BoundRoles(user, resource) ==
    {bi \in Resources \X RowIds(store) :
        /\ bi[1] \in resource_role_applies_to(resource)
        /\ bi[2] \in user_in_role(user, bi[1])}

\* ------------------------------------------------------------ the policies
Order3 == <<"ADMIN", "WRITE", "READ">>

Rule(role_type, name, action, resource_type) ==
    [role_type |-> role_type, name |-> name, action |-> action,
     resource_type |-> resource_type]

\* The policies an application may load next to the base policy: which
\* role orders it declares, which child types it writes a
\* resource_role_applies_to rule for, and one permission rule.
OrderChoices ==
    {[Organization |-> o, Repository |-> r] : o \in {<<>>, Order3}, r \in {<<>>, Order3}}
AppliesToChoices == {{}, {"Repository"}, {"Repository", "Issue"}}
RuleChoices ==
    {{Rule(t, n, "view", rt)} :
        t \in RoleResourceTypes, n \in {"ADMIN", "READ"},
        rt \in {"Repository", "Issue"}}

\* The policy of the module's documentation: organization roles apply to
\* repositories, both role classes are ordered.
DocOrders == [Organization |-> Order3, Repository |-> Order3]
DocAppliesTo == {"Repository"}
DocRules == {Rule("Organization", "READ", "view", "Repository")}

\* ------------------------------------------------------------- the calls
Idle == [step |-> "idle", user |-> None, resource |-> None, name |-> None,
         held |-> FALSE, single |-> FALSE]

NoCall == [op |-> "none", user |-> None, resource |-> None, action |-> None,
           raised |-> FALSE, roles |-> {}, bound |-> {}, decision |-> FALSE]

Occurrences(users, user) == Cardinality({i \in 1..Len(users) : users[i] = user})

RECURSIVE Entries(_)
Entries(st) == IF st = <<>> THEN 0 ELSE Len(Head(st).users) + Entries(Tail(st))

\* The store stays within the bounds of the run.
Fits(st) == Len(st) <= MaxRows /\ Entries(st) <= MaxEntries

InitSession ==
    /\ store = <<>>
    /\ pc = Idle
    /\ last = NoCall
    /\ goal_path = <<>>
    /\ verdict = "none"

Init ==
    /\ InitSession
    /\ role_order = DocOrders
    /\ applies_to_rules = DocAppliesTo
    /\ role_allow_rules = DocRules

PolicyUnchanged == UNCHANGED <<role_order, applies_to_rules, role_allow_rules>>
EvalUnchanged == UNCHANGED <<goal_path, verdict>>

AddUserRole(user, resource, role_name) ==
    /\ pc.step = "idle"
    /\ Fits(add_user_role(store, user, resource, role_name))
    /\ store' = add_user_role(store, user, resource, role_name)
    /\ last' = NoCall
    /\ UNCHANGED pc
    /\ PolicyUnchanged /\ EvalUnchanged

DeleteUserRole(user, resource, role_name) ==
    /\ pc.step = "idle"
    /\ LET r == delete_user_role(store, user, resource, role_name)
       IN /\ store' = r.store
          /\ last' = [NoCall EXCEPT !.raised = r.raised]
    /\ UNCHANGED pc
    /\ PolicyUnchanged /\ EvalUnchanged

\* reassign_user_role, first statement: delete_user_role(session, user, resource).
ReassignDelete(user, resource, role_name) ==
    /\ pc.step = "idle"
    /\ LET r == delete_user_role(store, user, resource, None)
           mine == RolesOfUserOn(store, user, resource)
       IN /\ Fits(add_user_role(r.store, user, resource, role_name))
          /\ store' = r.store
          /\ IF r.raised
             THEN /\ pc' = Idle
                  /\ last' = [NoCall EXCEPT !.raised = TRUE]
             ELSE /\ pc' = [step |-> "add", user |-> user, resource |-> resource,
                            name |-> role_name, held |-> (mine # {}),
                            single |-> \A i \in mine :
                                          Occurrences(store[i].users, user) = 1]
                  /\ last' = NoCall
    /\ PolicyUnchanged /\ EvalUnchanged

\* reassign_user_role, second statement: add_user_role(session, user, resource, role_name).
ReassignAdd ==
    /\ pc.step = "add"
    /\ store' = add_user_role(store, pc.user, pc.resource, pc.name)
    /\ last' = NoCall
    /\ pc' = Idle
    /\ PolicyUnchanged /\ EvalUnchanged

\* A read on the session: get_user_roles_for_resource(session, user, resource).
GetUserRoles(user, resource) ==
    /\ last' = [NoCall EXCEPT !.op = "roles", !.user = user, !.resource = resource,
                              !.roles = get_user_roles_for_resource(store, user, resource)]
    /\ UNCHANGED <<store, pc>>
    /\ PolicyUnchanged /\ EvalUnchanged

\* A decision: the query allow(user, action, resource).
IsAllowed(user, action, resource) ==
    /\ last' = [NoCall EXCEPT !.op = "allow", !.user = user, !.action = action,
                              !.resource = resource,
                              !.bound = BoundRoles(user, resource),
                              !.decision = allow(user, action, resource)]
    /\ UNCHANGED <<store, pc>>
    /\ PolicyUnchanged /\ EvalUnchanged

AssignedNames == {"ADMIN", "READ"}
Repositories == {r \in Resources : TypeOf(r) = "Repository"}

\* A session of role calls on the repositories, with membership reads.
Next ==
    \/ \E u \in Users, r \in Repositories, n \in AssignedNames : AddUserRole(u, r, n)
    \/ \E u \in Users, r \in Repositories, n \in AssignedNames \cup {None} :
          DeleteUserRole(u, r, n)
    \/ \E u \in Users, r \in Repositories, n \in AssignedNames :
          ReassignDelete(u, r, n)
    \/ ReassignAdd
    \/ \E u \in Users, r \in Repositories : GetUserRoles(u, r)

Spec == Init /\ [][Next]_vars

\* ------------------------------------------------------ the decision runs
\* The application loads one of the policies; larry is given and loses the
\* ADMIN role on the role-bearing resources, moe never holds a role;
\* decisions are asked for both, on every resource.
InitPolicy ==
    /\ InitSession
    /\ role_order \in OrderChoices
    /\ applies_to_rules \in AppliesToChoices
    /\ role_allow_rules \in RuleChoices

NextPolicy ==
    \/ \E r \in RoleResources : AddUserRole("larry", r, "ADMIN")
    \/ \E r \in RoleResources, n \in {"ADMIN", None} : DeleteUserRole("larry", r, n)
    \/ \E u \in Users, a \in PolicyActions, r \in Resources : IsAllowed(u, a, r)

SpecPolicy == InitPolicy /\ [][NextPolicy]_vars

\* ----------------------------------------------------- the hierarchy runs
\* The role_allow goals the policy engine opens for one query
\* role_allow(role, action, resource): the inheritance rule opens the goal
\* role_allow(inherited_role, action, resource) for an inherited role, a
\* permission rule closes the query with ALLOW, a goal with nothing left
\* to try is dropped, and the query ends DENY when none is left.
RECURSIVE SeqsUpTo(_, _)
SeqsUpTo(S, n) ==
    IF n = 0 THEN {<<>>}
    ELSE LET shorter == SeqsUpTo(S, n - 1)
         IN shorter \cup {Append(q, x) : q \in shorter, x \in S}

InitEval ==
    /\ InitSession
    /\ role_order \in {[Organization |-> <<>>, Repository |-> o] :
                          o \in SeqsUpTo(RoleNames, MaxOrderLen)}
    /\ applies_to_rules = {}
    /\ role_allow_rules = {Rule("Repository", "READ", "view", "Repository")}

Top(path) == path[Len(path)]

EvalStart(role_name, resource) ==
    /\ verdict # "running"
    /\ goal_path' = <<[name |-> role_name, resource |-> resource]>>
    /\ verdict' = "running"
    /\ UNCHANGED <<store, pc, last>>
    /\ PolicyUnchanged

EvalInherit ==
    /\ verdict = "running"
    /\ Len(goal_path) < MaxDepth
    /\ \E inherited \in inherits_role(Top(goal_path)) :
          goal_path' = Append(goal_path, inherited)
    /\ UNCHANGED <<store, pc, last, verdict>>
    /\ PolicyUnchanged

EvalPermit ==
    /\ verdict = "running"
    /\ Permits(Top(goal_path), "view", goal_path[1].resource)
    /\ goal_path' = <<>>
    /\ verdict' = "ALLOW"
    /\ UNCHANGED <<store, pc, last>>
    /\ PolicyUnchanged

EvalFail ==
    /\ verdict = "running"
    /\ goal_path' = SubSeq(goal_path, 1, Len(goal_path) - 1)
    /\ verdict' = IF Len(goal_path) = 1 THEN "DENY" ELSE "running"
    /\ UNCHANGED <<store, pc, last>>
    /\ PolicyUnchanged

NextEval ==
    \/ \E n \in RoleNames, r \in Repositories : EvalStart(n, r)
    \/ EvalInherit
    \/ EvalPermit
    \/ EvalFail

SpecEval == InitEval /\ [][NextEval]_vars

\* ================================================================ claims
Holds(user, resource) == RolesOfUserOn(store, user, resource) # {}

HoldsNamed(user, resource, role_name) ==
    \E i \in RolesNamed(store, resource, role_name) : Contains(store[i].users, user)

\* The rows that have the user are exactly one row, ADMIN on acme.
OnlyAdminOnAcme(user) ==
    /\ HoldsNamed(user, "acme", "ADMIN")
    /\ \A i \in RowIds(store) :
          Contains(store[i].users, user)
              => store[i].resource = "acme" /\ store[i].name = "ADMIN"

\* The resources a resource delegates to along the declared edges, itself
\* included, however long the chain.
RECURSIVE DelegatesTo(_)
DelegatesTo(resource) ==
    {resource} \cup
    (IF TypeOf(resource) \in applies_to_rules /\ ParentOf(resource) # None
     THEN DelegatesTo(ParentOf(resource)) ELSE {})

AskedAllow(user, resource) ==
    last.op = "allow" /\ last.user = user /\ last.resource = resource

\* C1: when reassign_user_role(actor, R, W) completes, the actor's roles on
\* R are exactly one role, named W.
C1_ReassignLeavesOnlyNewRole ==
    [][(pc.step = "add" /\ pc'.step = "idle")
        => LET mine == RolesOfUserOn(store', pc.user, pc.resource)
           IN /\ Cardinality(mine) = 1
              /\ \A i \in mine : store'[i].name = pc.name]_vars

\* C2: an actor who is a member of no role on R nor on any resource R
\* delegates to is denied every action on R, under every loaded policy.
C2_NoRoleNoAccess ==
    \A u \in Users, r \in Resources :
        (\A b \in DelegatesTo(r) : ~Holds(u, b))
            => /\ \A a \in PolicyActions : ~allow(u, a, r)
               /\ (AskedAllow(u, r) => ~last.decision)

\* larry holds ADMIN on the sibling repository only, the policy lets the
\* repository ADMIN role view repositories, and larry is denied web.
C2_Witness ==
    /\ AskedAllow("larry", "web") /\ ~last.decision
    /\ \A b \in DelegatesTo("web") : ~Holds("larry", b)
    /\ HoldsNamed("larry", "api", "ADMIN")
    /\ allow("larry", "view", "api")

\* C3: every role get_user_roles_for_resource returns for (actor, R), and
\* every role user_in_role binds for (actor, R), is scoped to R.
C3_RolesScopedToResource ==
    /\ last.op = "roles" => \A i \in last.roles : store[i].resource = last.resource
    /\ \A u \in Users, r \in Resources :
          \A i \in user_in_role(u, r) : store[i].resource = r

Distinct(order) ==
    \A i, j \in 1..Len(order) : i # j => order[i] # order[j]

\* The names strictly after a name in an order, found by its index.
StrictSuffix(role_name, order) ==
    IF \E i \in 1..Len(order) : order[i] = role_name
    THEN LET i == CHOOSE i \in 1..Len(order) : order[i] = role_name
         IN {order[j] : j \in (i + 1)..Len(order)}
    ELSE {}

\* C4: for an order of distinct names, a role named N on R inherits exactly
\* one role per name strictly after N in the order, each on R (none when N
\* is absent or last), and every goal the inheritance rule opens under a
\* role is already among the roles it inherits in one step.
C4_InheritsStrictSuffix ==
    Distinct(role_order["Repository"])
        => /\ \A n \in RoleNames, r \in Repositories :
                inherits_role([name |-> n, resource |-> r])
                    = {[name |-> m, resource |-> r] :
                          m \in StrictSuffix(n, role_order["Repository"])}
           /\ \A k \in 2..Len(goal_path) :
                goal_path[k] \in inherits_role(goal_path[1])

\* ADMIN of the order ADMIN, WRITE, READ expanded through WRITE to READ.
C4_Witness ==
    /\ role_order["Repository"] = Order3
    /\ Len(goal_path) = 3
    /\ goal_path[1].name = "ADMIN"
    /\ goal_path[3].name = "READ"

\* C5 as stated: web delegates to acme, larry holds ADMIN on acme only, the
\* order ADMIN, WRITE, READ is declared for Repository roles and one rule
\* grants the READ role "view" on Repository; then larry may view web.
C5_AsStated ==
    (/\ "Repository" \in applies_to_rules
     /\ role_order["Repository"] = Order3
     /\ \E t \in RoleResourceTypes :
           role_allow_rules = {Rule(t, "READ", "view", "Repository")}
     /\ OnlyAdminOnAcme("larry"))
        => allow("larry", "view", "web")

\* The delegation scenario with the order declared for the role larry holds.
C5_Scenario ==
    /\ "Repository" \in applies_to_rules
    /\ role_order["Organization"] = Order3
    /\ role_allow_rules = {Rule("Organization", "READ", "view", "Repository")}
    /\ OnlyAdminOnAcme("larry")

\* C5: web delegates to acme, larry holds ADMIN on acme only, the order
\* ADMIN, WRITE, READ is declared for Organization roles (the class of the
\* role larry holds) and one rule grants the Organization READ role "view"
\* on Repository; then larry may view web.
C5_DelegatedInheritedAllow ==
    C5_Scenario
        => /\ allow("larry", "view", "web")
           /\ (AskedAllow("larry", "web") => last.decision)

C5_Witness ==
    /\ C5_Scenario
    /\ role_order["Repository"] = <<>>
    /\ AskedAllow("larry", "web") /\ last.decision

C7_RaisesWhenNotHeld ==
    [][\A u \in Users, r \in Repositories :
          /\ \A n \in AssignedNames :
                (DeleteUserRole(u, r, n) /\ ~HoldsNamed(u, r, n))
                    => last'.raised /\ store' = store
          /\ (DeleteUserRole(u, r, None) /\ ~Holds(u, r))
                => last'.raised /\ store' = store
          /\ \A n \in AssignedNames :
                (ReassignDelete(u, r, n) /\ ~Holds(u, r))
                    => last'.raised /\ store' = store]_vars

C9_NoRoleExpandedTwice ==
    \A i, j \in 1..Len(goal_path) : i # j => goal_path[i] # goal_path[j]

\* C10: the store never holds two role rows for one (resource, role name).
C10_OneRowPerResourceAndName ==
    \A i, j \in RowIds(store) :
        (store[i].resource = store[j].resource /\ store[i].name = store[j].name)
            => i = j

\* A second actor was appended to an existing row, and a row whose last
\* member was removed is still there.
C10_Witness ==
    /\ \E i \in RowIds(store) :
          Len(store[i].users) = 2 /\ store[i].users[1] # store[i].users[2]
    /\ \E i \in RowIds(store) : store[i].users = <<>>

====
